---------------------------- MODULE Spec2Model ----------------------------
(***************************************************************************)
(* Model of the full_kg operator scripts.                                  *)
(*                                                                         *)
(*   batch_processor.py   split_input_by_source: group the *.txt files of  *)
(*                        the input directory by filename prefix and move  *)
(*                        them into batch-sized subdirectories.            *)
(*   data_ingestion.py    init / prompt-tune / index / query pipeline.     *)
(*   test-integration.py  index (with a resume check) / query pipeline.    *)
(*                                                                         *)
(* File names are sequences of tokens ("a", "_", "1", ".txt"); a directory *)
(* name is a sequence of tokens too, and the input directory itself is the *)
(* empty sequence (pathlib: input_path / "" == input_path).                *)
(***************************************************************************)
EXTENDS Integers, Sequences, FiniteSets, TLC

(***************************************************************************)
(* Bounds of the model.                                                    *)
(***************************************************************************)
MaxFiles == 4
MaxBatch == 2

Procs == {1, 2}

Root == <<>>

Names ==
  { <<"a", "_", "1", ".txt">>, <<"a", "_", "2", ".txt">>,
    <<"a", "_", "3", ".txt">>, <<"a", "_", "4", ".txt">>,
    <<"b", "_", "1", ".txt">>,
    <<"c", ".txt">>, <<"_", "1", ".txt">>, <<"_", "2", ".txt">>,
    <<"b", ".md">> }

RaceNames ==
  { <<"a", "_", "1", ".txt">>, <<"a", "_", "2", ".txt">>,
    <<"a", "_", "3", ".txt">>, <<"b", "_", "1", ".txt">> }

Digit == <<"1", "2", "3", "4", "5", "6", "7", "8", "9">>

VARIABLES
  batch_size,       \* parameter of split_input_by_source
  tree,             \* files under the input directory: [dir, name, orig]
  dirs,             \* subdirectories of the input directory
  tree0,            \* the files before any run (history)
  pc,               \* per instance: position in split_input_by_source
  files_by_prefix,  \* per instance: the dict, in insertion order
  chunks,           \* per instance: chunks of the current group with subdir
  gi, ci, fi,       \* per instance: loop indices (group, chunk, file)
  created_dirs,     \* per instance: the returned list
  moved,            \* per instance: the shutil.move calls that returned
  script,           \* which orchestration script runs
  ppc,              \* position in the orchestration script
  ws,               \* the workspace directory as the script can see it
  ws0,              \* the workspace before the script started (history)
  invoked,          \* the external tool commands run so far, with exit status
  console,          \* what the script itself has echoed of the tool's output
  tuning_success,   \* result of run_auto_prompt_tuning
  indexing_complete,\* test-integration.py: outcome of the resume check
  existing_files    \* test-integration.py: key files found by the check

splitVars == <<batch_size, tree, dirs, tree0, pc, files_by_prefix, chunks,
               gi, ci, fi, created_dirs, moved>>

pipeVars == <<script, ppc, ws, ws0, invoked, console, tuning_success,
              indexing_complete, existing_files>>

vars == <<splitVars, pipeVars>>

(***************************************************************************)
(* Pure helpers of split_input_by_source.                                  *)
(***************************************************************************)
Min(a, b) == IF a <= b THEN a ELSE b

\* glob("*.txt"): the name ends in ".txt"
IsTxt(name) == Len(name) > 0 /\ name[Len(name)] = ".txt"

\* file.name.split('_')[0]: everything before the first underscore
RECURSIVE Prefix(_)
Prefix(name) ==
  IF name = <<>> THEN <<>>
  ELSE IF Head(name) = "_" THEN <<>>
  ELSE <<Head(name)>> \o Prefix(Tail(name))

\* f"{prefix}_part{i}"
PartDir(prefix, i) == prefix \o <<"_", "part", Digit[i]>>

\* faulty variant: the scan descends into the subdirectories (rglob("*.txt"))
TopTxt_Recursive(t) == { e.name : e \in { x \in t : IsTxt(x.name) } }

\* the names glob("*.txt") yields at the top level of the input directory
TopTxt(t) == { e.name : e \in { x \in t : x.dir = Root /\ IsTxt(x.name) } }

\* every order in which the directory scan may yield the names of S
Orders(S) ==
  { o \in [1..Cardinality(S) -> S] :
      \A i, j \in 1..Cardinality(S) : i # j => o[i] # o[j] }

\* one iteration of the grouping loop (lines 20-23)
AddToGroup(acc, file) ==
  LET prefix == Prefix(file) IN
  IF \E i \in DOMAIN acc : acc[i].prefix = prefix
  THEN [i \in DOMAIN acc |->
          IF acc[i].prefix = prefix
          THEN [acc[i] EXCEPT !.files = Append(@, file)]
          ELSE acc[i]]
  ELSE Append(acc, [prefix |-> prefix, files |-> <<file>>])

RECURSIVE GroupFrom(_, _)
GroupFrom(order, acc) ==
  IF order = <<>> THEN acc
  ELSE GroupFrom(Tail(order), AddToGroup(acc, Head(order)))

GroupByPrefix(order) == GroupFrom(order, <<>>)

\* faulty variant: the slice is one element too long (files[i:i + batch_size + 1])
RECURSIVE ChunksFrom_LongSlice(_, _, _)
ChunksFrom_LongSlice(files, i, b) ==
  IF i >= Len(files) THEN <<>>
  ELSE <<SubSeq(files, i + 1, Min(i + b + 1, Len(files)))>>
         \o ChunksFrom_LongSlice(files, i + b, b)

\* [files[i:i + batch_size] for i in range(i0, len(files), batch_size)]
RECURSIVE ChunksFrom(_, _, _)
ChunksFrom(files, i, b) ==
  IF i >= Len(files) THEN <<>>
  ELSE <<SubSeq(files, i + 1, Min(i + b, Len(files)))>>
         \o ChunksFrom(files, i + b, b)

\* faulty variant: the size test is strict (len(files) < batch_size)
GroupPlan_Strict(group, b) ==
  IF Len(group.files) < b
  THEN << [subdir |-> group.prefix, chunk |-> group.files] >>
  ELSE LET cs == ChunksFrom(group.files, 0, b) IN
       [i \in DOMAIN cs |->
          [subdir |-> PartDir(group.prefix, i), chunk |-> cs[i]]]

\* faulty variant: the last, partial chunk is forgotten
GroupPlan_NoRemainder(group, b) ==
  IF Len(group.files) <= b
  THEN << [subdir |-> group.prefix, chunk |-> group.files] >>
  ELSE LET cs == ChunksFrom(group.files, 0, b) IN
       [i \in 1..(Len(group.files) \div b) |->
          [subdir |-> PartDir(group.prefix, i), chunk |-> cs[i]]]

\* the subdirectories of one group and the files each receives (lines 34-57)
GroupPlan(group, b) ==
  IF Len(group.files) <= b
  THEN << [subdir |-> group.prefix, chunk |-> group.files] >>
  ELSE LET cs == ChunksFrom(group.files, 0, b) IN
       [i \in DOMAIN cs |->
          [subdir |-> PartDir(group.prefix, i), chunk |-> cs[i]]]

IsFileAt(t, d, n) == \E e \in t : e.dir = d /\ e.name = n

\* faulty variant: the file is copied, the source stays (shutil.copy)
MoveEntry_Copy(t, n, d) ==
  LET src == CHOOSE e \in t : e.dir = Root /\ e.name = n IN
  IF d = Root THEN t
  ELSE { e \in t : ~(e.dir = d /\ e.name = n) } \cup { [src EXCEPT !.dir = d] }

\* shutil.move(src, subdir / name): os.rename replaces an existing regular
\* file at the destination; moving a path onto itself changes nothing.
MoveEntry(t, n, d) ==
  LET src == CHOOSE e \in t : e.dir = Root /\ e.name = n IN
  IF d = Root THEN t
  ELSE { e \in t : ~(e.dir = Root /\ e.name = n)
                   /\ ~(e.dir = d /\ e.name = n) }
       \cup { [src EXCEPT !.dir = d] }

(***************************************************************************)
(* split_input_by_source, one instance p.                                  *)
(***************************************************************************)
\* lines 18-23: scan the directory and build files_by_prefix
Glob(p) ==
  /\ pc[p] = "glob"
  /\ \E order \in Orders(TopTxt(tree)) :
       files_by_prefix' = [files_by_prefix EXCEPT ![p] = GroupByPrefix(order)]
  /\ gi' = [gi EXCEPT ![p] = 1]
  /\ pc' = [pc EXCEPT ![p] = "group"]
  /\ UNCHANGED <<batch_size, tree, dirs, tree0, chunks, ci, fi,
                 created_dirs, moved, pipeVars>>

\* line 31 (loop head) and lines 34, 47: pick the next group, or return
NextGroup(p) ==
  /\ pc[p] = "group"
  /\ IF gi[p] > Len(files_by_prefix[p])
     THEN /\ pc' = [pc EXCEPT ![p] = "done"]
          /\ UNCHANGED <<chunks, ci>>
     ELSE /\ chunks' = [chunks EXCEPT
                          ![p] = GroupPlan(files_by_prefix[p][gi[p]], batch_size)]
          /\ ci' = [ci EXCEPT ![p] = 1]
          /\ pc' = [pc EXCEPT ![p] = "mkdir"]
  /\ UNCHANGED <<batch_size, tree, dirs, tree0, files_by_prefix, gi, fi,
                 created_dirs, moved, pipeVars>>

\* lines 36-38 and 49-52: subdir.mkdir(exist_ok=True); created_dirs.append
Mkdir(p) ==
  /\ pc[p] = "mkdir"
  /\ IF ci[p] > Len(chunks[p])
     THEN /\ gi' = [gi EXCEPT ![p] = @ + 1]
          /\ pc' = [pc EXCEPT ![p] = "group"]
          /\ UNCHANGED <<dirs, created_dirs, fi>>
     ELSE LET subdir == chunks[p][ci[p]].subdir IN
          IF IsFileAt(tree, Root, subdir)
          THEN \* FileExistsError: the path exists and is not a directory
               /\ pc' = [pc EXCEPT ![p] = "raised"]
               /\ UNCHANGED <<dirs, created_dirs, fi, gi>>
          ELSE /\ dirs' = IF subdir = Root THEN dirs ELSE dirs \cup {subdir}
               /\ created_dirs' = [created_dirs EXCEPT ![p] = Append(@, subdir)]
               /\ fi' = [fi EXCEPT ![p] = 1]
               /\ pc' = [pc EXCEPT ![p] = "move"]
               /\ UNCHANGED gi
  /\ UNCHANGED <<batch_size, tree, tree0, files_by_prefix, chunks, ci, moved,
                 pipeVars>>

\* lines 40-41 and 54-55: shutil.move of the next file of the chunk
Move(p) ==
  /\ pc[p] = "move"
  /\ LET c == chunks[p][ci[p]] IN
     IF fi[p] > Len(c.chunk)
     THEN /\ ci' = [ci EXCEPT ![p] = @ + 1]
          /\ pc' = [pc EXCEPT ![p] = "mkdir"]
          /\ UNCHANGED <<tree, fi, moved>>
     ELSE LET file == c.chunk[fi[p]] IN
          IF ~IsFileAt(tree, Root, file)
          THEN \* FileNotFoundError: the source is gone
               /\ pc' = [pc EXCEPT ![p] = "raised"]
               /\ UNCHANGED <<tree, fi, ci, moved>>
          ELSE /\ tree' = MoveEntry(tree, file, c.subdir)
               /\ moved' = [moved EXCEPT
                              ![p] = Append(@, [name |-> file, subdir |-> c.subdir])]
               /\ fi' = [fi EXCEPT ![p] = @ + 1]
               /\ UNCHANGED <<pc, ci>>
  /\ UNCHANGED <<batch_size, dirs, tree0, files_by_prefix, chunks, gi,
                 created_dirs, pipeVars>>

Step(p) == Glob(p) \/ NextGroup(p) \/ Mkdir(p) \/ Move(p)

(***************************************************************************)
(* Initial states.                                                         *)
(***************************************************************************)
Entry(d, n) == [dir |-> d, name |-> n, orig |-> d]

\* what may already lie under the input directory: nothing, or the
\* subdirectories an earlier run or the operator left behind
PreTrees ==
  { {},
    { Entry(<<"a">>, <<"a", "_", "1", ".txt">>) },
    { Entry(<<"a">>, <<"a", "_", "0", ".txt">>) },
    { Entry(PartDir(<<"a">>, 1), <<"a", "_", "0", ".txt">>) } }

PreDirs(pre) == { e.dir : e \in pre }

\* no orchestration script is running
NoPipeline ==
  /\ script = "none"
  /\ ppc = "idle"
  /\ ws = [env |-> FALSE, settings |-> FALSE, prompts |-> "missing",
           output_dir |-> FALSE, key_files |-> {}]
  /\ ws0 = ws
  /\ invoked = <<>>
  /\ console = <<>>
  /\ tuning_success = FALSE
  /\ indexing_complete = FALSE
  /\ existing_files = {}

InitLocals ==
  /\ NoPipeline
  /\ files_by_prefix = [p \in Procs |-> <<>>]
  /\ chunks = [p \in Procs |-> <<>>]
  /\ gi = [p \in Procs |-> 0]
  /\ ci = [p \in Procs |-> 0]
  /\ fi = [p \in Procs |-> 0]
  /\ created_dirs = [p \in Procs |-> <<>>]
  /\ moved = [p \in Procs |-> <<>>]

\* one call of split_input_by_source on an arbitrary input directory
Init ==
  /\ batch_size \in 1..MaxBatch
  /\ \E top \in SUBSET Names, pre \in PreTrees, empty \in SUBSET {<<"a">>} :
       /\ Cardinality(top) <= MaxFiles
       /\ tree = { Entry(Root, n) : n \in top } \cup pre
       /\ dirs = PreDirs(pre) \cup empty
  /\ tree0 = tree
  /\ pc = [p \in Procs |-> IF p = 1 THEN "glob" ELSE "idle"]
  /\ InitLocals

Next == Step(1)

Spec == Init /\ [][Next]_vars


(***************************************************************************)
(* Two instances of the script on the same input directory, with no lock   *)
(* between them (specification SpecRace).                                  *)
(***************************************************************************)
InitFresh ==
  /\ batch_size \in 1..MaxBatch
  /\ \E top \in SUBSET RaceNames :
       /\ Cardinality(top) <= MaxFiles
       /\ tree = { Entry(Root, n) : n \in top }
  /\ dirs = {}
  /\ tree0 = tree
  /\ InitLocals

InitRace ==
  /\ InitFresh
  /\ pc = [p \in Procs |-> "glob"]

NextRace == \E p \in Procs : Step(p)

SpecRace == InitRace /\ [][NextRace]_vars

(***************************************************************************)
(* A run that may be interrupted, followed by a second run on what it left *)
(* (specification SpecResume).                                             *)
(***************************************************************************)
Stopped(p) == pc[p] \in {"done", "raised", "killed"}

\* the process is killed somewhere between the scan and the return
Interrupt(p) ==
  /\ pc[p] \in {"group", "mkdir", "move"}
  /\ pc' = [pc EXCEPT ![p] = "killed"]
  /\ UNCHANGED <<batch_size, tree, dirs, tree0, files_by_prefix, chunks,
                 gi, ci, fi, created_dirs, moved, pipeVars>>

\* the operator starts the script again once the first run is over
Rerun(p) ==
  /\ pc[p] = "idle"
  /\ \A q \in Procs \ {p} : Stopped(q)
  /\ pc' = [pc EXCEPT ![p] = "glob"]
  /\ UNCHANGED <<batch_size, tree, dirs, tree0, files_by_prefix, chunks,
                 gi, ci, fi, created_dirs, moved, pipeVars>>

InitResume ==
  /\ InitFresh
  /\ pc = [p \in Procs |-> IF p = 1 THEN "glob" ELSE "idle"]

NextResume ==
  \/ \E p \in Procs : Step(p)
  \/ Interrupt(1)
  \/ Rerun(2)

SpecResume == InitResume /\ [][NextResume]_vars

(***************************************************************************)
(* The orchestration scripts data_ingestion.py and test-integration.py     *)
(* (specification SpecPipeline).  The external tool is the environment:    *)
(* its exit status is any of Status.                                       *)
(***************************************************************************)
Status == {0, 1}

KeyFiles == {"entities.parquet", "relationships.parquet", "communities.parquet"}

PromptsStates == {"missing", "empty", "populated"}

\* subprocess.run([... "graphrag", cmd ...]) has returned with status st
Ran(cmd, st) == Append(invoked, [cmd |-> cmd, status |-> st, found |-> ws])

\* the tool's output reaches the terminal either directly (stdout and stderr
\* inherited: no capture_output) or because the script prints what it captured
Inherited(cmd) ==
  << [stream |-> "stdout", of |-> cmd, via |-> "inherited"],
     [stream |-> "stderr", of |-> cmd, via |-> "inherited"] >>

Echoed(stream, cmd) == [stream |-> stream, of |-> cmd, via |-> "echoed"]

\* what a failed or interrupted index run may leave in the output directory
AfterIndex(st) ==
  IF st = 0
  THEN { [ws EXCEPT !.output_dir = TRUE, !.key_files = KeyFiles] }
  ELSE { [ws EXCEPT !.output_dir = ws.output_dir \/ ks # {}, !.key_files = ks] :
           ks \in { k \in SUBSET KeyFiles : ws.key_files \subseteq k } }

\* faulty variant: init is skipped as soon as one of the two files exists
\* (not (exists(.env) or exists(settings.yaml)))
InitWorkspace_EitherPresent ==
  /\ script = "data_ingestion"
  /\ ppc = "init"
  /\ IF ws.env \/ ws.settings
     THEN /\ ppc' = "tune"
          /\ UNCHANGED <<ws, invoked, console>>
     ELSE \E st \in Status :
            /\ invoked' = Ran("init", st)
            /\ console' = console \o Inherited("init")
            /\ IF st = 0
               THEN /\ ws' = [ws EXCEPT !.env = TRUE, !.settings = TRUE]
                    /\ ppc' = "tune"
               ELSE /\ ws' = ws
                    /\ ppc' = "crashed"
  /\ UNCHANGED <<script, ws0, tuning_success, indexing_complete,
                 existing_files, splitVars>>

\* data_ingestion.py lines 14-19: init unless .env and settings.yaml exist
InitWorkspace ==
  /\ script = "data_ingestion"
  /\ ppc = "init"
  /\ IF ws.env /\ ws.settings
     THEN /\ ppc' = "tune"
          /\ UNCHANGED <<ws, invoked, console>>
     ELSE \E st \in Status :
            /\ invoked' = Ran("init", st)
            /\ console' = console \o Inherited("init")
            /\ IF st = 0
               THEN /\ ws' = [ws EXCEPT !.env = TRUE, !.settings = TRUE]
                    /\ ppc' = "tune"
               ELSE \* check=True: CalledProcessError, uncaught
                    /\ ws' = ws
                    /\ ppc' = "crashed"
  /\ UNCHANGED <<script, ws0, tuning_success, indexing_complete,
                 existing_files, splitVars>>

\* data_ingestion.py lines 158-165 with run_auto_prompt_tuning (37-80)
PromptTune ==
  /\ script = "data_ingestion"
  /\ ppc = "tune"
  /\ \E st \in Status :
       /\ invoked' = Ran("prompt-tune", st)
       /\ IF st = 0
          THEN /\ tuning_success' = TRUE
               /\ ws' = [ws EXCEPT !.prompts = "populated"]
               /\ console' = console
          ELSE \* except CalledProcessError: print e.stderr, return False
               /\ tuning_success' = FALSE
               /\ ws' = ws
               /\ console' = Append(console, Echoed("stderr", "prompt-tune"))
  /\ ppc' = "index"
  /\ UNCHANGED <<script, ws0, indexing_complete, existing_files, splitVars>>

\* faulty variant: check=True is missing, a failed index run is not noticed
IngestIndex_Unchecked ==
  /\ script = "data_ingestion"
  /\ ppc = "index"
  /\ \E st \in Status :
       /\ invoked' = Ran("index", st)
       /\ console' = console \o Inherited("index")
       /\ ws' \in AfterIndex(st)
       /\ ppc' = "query"
  /\ UNCHANGED <<script, ws0, tuning_success, indexing_complete,
                 existing_files, splitVars>>

\* data_ingestion.py lines 167-175: index, unconditionally, check=True
IngestIndex ==
  /\ script = "data_ingestion"
  /\ ppc = "index"
  /\ \E st \in Status :
       /\ invoked' = Ran("index", st)
       /\ console' = console \o Inherited("index")
       /\ ws' \in AfterIndex(st)
       /\ ppc' = IF st = 0 THEN "query" ELSE "crashed"
  /\ UNCHANGED <<script, ws0, tuning_success, indexing_complete,
                 existing_files, splitVars>>

\* data_ingestion.py lines 177-197: query; on failure echo and re-raise
IngestQuery ==
  /\ script = "data_ingestion"
  /\ ppc = "query"
  /\ \E st \in Status :
       /\ invoked' = Ran("query", st)
       /\ IF st = 0
          THEN /\ console' = Append(console, Echoed("stdout", "query"))
               /\ ppc' = "finished"
          ELSE /\ console' = console \o << Echoed("stdout", "query"),
                                          Echoed("stderr", "query") >>
               /\ ppc' = "crashed"
  /\ UNCHANGED <<script, ws, ws0, tuning_success, indexing_complete,
                 existing_files, splitVars>>

\* faulty variant: the check wants all three key files (len(existing_files) >= 3)
ResumeCheck_AllThree ==
  /\ script = "test-integration"
  /\ ppc = "check"
  /\ existing_files' = IF ws.output_dir THEN ws.key_files ELSE {}
  /\ indexing_complete' = (ws.output_dir /\ Cardinality(ws.key_files) >= 3)
  /\ ppc' = "index"
  /\ UNCHANGED <<script, ws, ws0, invoked, console, tuning_success, splitVars>>

\* test-integration.py lines 140-152: the resume check
ResumeCheck ==
  /\ script = "test-integration"
  /\ ppc = "check"
  /\ existing_files' = IF ws.output_dir THEN ws.key_files ELSE {}
  /\ indexing_complete' = (ws.output_dir /\ Cardinality(ws.key_files) >= 2)
  /\ ppc' = "index"
  /\ UNCHANGED <<script, ws, ws0, invoked, console, tuning_success, splitVars>>

\* test-integration.py lines 154-161: index unless the check found output
IntegrationIndex ==
  /\ script = "test-integration"
  /\ ppc = "index"
  /\ IF ~indexing_complete
     THEN \E st \in Status :
            /\ invoked' = Ran("index", st)
            /\ console' = console \o Inherited("index")
            /\ ws' \in AfterIndex(st)
            /\ ppc' = IF st = 0 THEN "query" ELSE "crashed"
     ELSE /\ ppc' = "query"
          /\ UNCHANGED <<ws, invoked, console>>
  /\ UNCHANGED <<script, ws0, tuning_success, indexing_complete,
                 existing_files, splitVars>>

\* test-integration.py lines 163-183: query; on failure echo and re-raise
IntegrationQuery ==
  /\ script = "test-integration"
  /\ ppc = "query"
  /\ \E st \in Status :
       /\ invoked' = Ran("query", st)
       /\ IF st = 0
          THEN /\ console' = Append(console, Echoed("stdout", "query"))
               /\ ppc' = "finished"
          ELSE /\ console' = console \o << Echoed("stdout", "query"),
                                          Echoed("stderr", "query") >>
               /\ ppc' = "crashed"
  /\ UNCHANGED <<script, ws, ws0, tuning_success, indexing_complete,
                 existing_files, splitVars>>

\* no call of split_input_by_source is under way
NoSplit ==
  /\ batch_size = 1
  /\ tree = {}
  /\ dirs = {}
  /\ tree0 = {}
  /\ pc = [p \in Procs |-> "idle"]
  /\ files_by_prefix = [p \in Procs |-> <<>>]
  /\ chunks = [p \in Procs |-> <<>>]
  /\ gi = [p \in Procs |-> 0]
  /\ ci = [p \in Procs |-> 0]
  /\ fi = [p \in Procs |-> 0]
  /\ created_dirs = [p \in Procs |-> <<>>]
  /\ moved = [p \in Procs |-> <<>>]

\* either script, started on any workspace
InitPipeline ==
  /\ NoSplit
  /\ script \in {"data_ingestion", "test-integration"}
  /\ ppc = IF script = "data_ingestion" THEN "init" ELSE "check"
  /\ \E e, st, od \in BOOLEAN, pr \in PromptsStates, ks \in SUBSET KeyFiles :
       /\ (ks # {}) => od
       /\ ws = [env |-> e, settings |-> st, prompts |-> pr,
                output_dir |-> od, key_files |-> ks]
  /\ ws0 = ws
  /\ invoked = <<>>
  /\ console = <<>>
  /\ tuning_success = FALSE
  /\ indexing_complete = FALSE
  /\ existing_files = {}

NextPipeline ==
  \/ InitWorkspace
  \/ PromptTune
  \/ IngestIndex
  \/ IngestQuery
  \/ ResumeCheck
  \/ IntegrationIndex
  \/ IntegrationQuery

SpecPipeline == InitPipeline /\ [][NextPipeline]_vars

(***************************************************************************)
(* Vocabulary of the claims about one call (specification Spec).           *)
(***************************************************************************)
Done == pc[1] = "done"

FilesIn(d) == { e \in tree : e.dir = d }

\* the names that were at the top level of the input directory before the run
TopNames0 == { e.name : e \in { x \in tree0 : x.dir = Root } }

\* where the files that started at the top level under name n are now
Whereabouts(n) == { e \in tree : e.orig = Root /\ e.name = n }

\* the files instance p has moved into d
Received(p, d) == Len(SelectSeq(moved[p], LAMBDA m : m.subdir = d))

\* how often instance p has moved file n
TimesMoved(p, n) == Len(SelectSeq(moved[p], LAMBDA m : m.name = n))

\* the entries of created_dirs that instance p appended for a prefix
DirsFor(p, prefix) == SelectSeq(created_dirs[p], LAMBDA d : Prefix(d) = prefix)

Range(s) == { s[i] : i \in DOMAIN s }

Enumerated(p) ==
  UNION { Range(files_by_prefix[p][g].files) : g \in DOMAIN files_by_prefix[p] }

Ceil(n, b) == (n + b - 1) \div b

(***************************************************************************)
(* C1, as stated: once the call has returned, every file that was in the   *)
(* input directory lies in exactly one destination subdirectory and none   *)
(* is left at the top level.                                               *)
(***************************************************************************)
C1_EveryFileInOneDestination ==
  Done => \A n \in TopNames0 :
            /\ ~IsFileAt(tree, Root, n)
            /\ Cardinality(Whereabouts(n)) = 1

(***************************************************************************)
(* C1, amended: once the call has returned, every file of the top level    *)
(* whose name matches *.txt lies in exactly one place, a directory the     *)
(* call reports in created_dirs; that place is a subdirectory, and the     *)
(* file is gone from the top level, unless the name begins with an         *)
(* underscore (empty prefix) and its group has at most batch_size files:   *)
(* then the destination is the input directory itself.  A file whose name  *)
(* does not match *.txt is where it was.                                   *)
(***************************************************************************)
EmptyPrefixGroup0 == { n \in TopNames0 : IsTxt(n) /\ Prefix(n) = <<>> }

C1_EveryTxtFileInOneDestination ==
  Done => \A n \in TopNames0 :
            IF IsTxt(n)
            THEN /\ Cardinality(Whereabouts(n)) = 1
                 /\ \A e \in Whereabouts(n) :
                      /\ e.dir \in Range(created_dirs[1])
                      /\ e.dir = Root <=>
                           /\ Prefix(n) = <<>>
                           /\ Cardinality(EmptyPrefixGroup0) <= batch_size
            ELSE Whereabouts(n) = { [dir |-> Root, name |-> n, orig |-> Root] }

C1_Witness ==
  /\ Done
  /\ \E n \in TopNames0 : IsTxt(n) /\ Prefix(n) # <<>>
  /\ \E n \in TopNames0 : ~IsTxt(n)
  /\ \E n \in TopNames0 : IsTxt(n) /\ Prefix(n) = <<>>
  /\ Len(moved[1]) >= 2

(***************************************************************************)
(* C2, as stated: once the call has returned, no destination subdirectory  *)
(* holds more files than batch_size, also when it existed before the run.  *)
(***************************************************************************)
C2_NoDestinationHoldsMoreThanBatch ==
  Done => \A d \in Range(created_dirs[1]) :
            d # Root => Cardinality(FilesIn(d)) <= batch_size

(***************************************************************************)
(* C2, amended: at every moment of a call no destination subdirectory has  *)
(* received more than batch_size files from it, and a destination          *)
(* subdirectory that held no file before the run holds at most batch_size  *)
(* files.                                                                  *)
(***************************************************************************)
C2_NoDestinationReceivesMoreThanBatch ==
  \A d \in Range(created_dirs[1]) :
    /\ Received(1, d) <= batch_size
    /\ (d # Root /\ { e \in tree0 : e.dir = d } = {})
         => Cardinality(FilesIn(d)) <= batch_size

C2_Witness ==
  /\ Done
  /\ \E d \in Range(created_dirs[1]) :
       /\ Received(1, d) = batch_size
       /\ { e \in tree0 : e.dir = d } # {}
       /\ Cardinality(FilesIn(d)) > batch_size

(***************************************************************************)
(* C3: a call never duplicates or drops a file: once it has returned the   *)
(* number of files under the input directory is what it was before, and    *)
(* each enumerated file has been moved exactly once.                       *)
(***************************************************************************)
C3_NoFileDuplicatedOrDropped ==
  Done => /\ Cardinality(tree) = Cardinality(tree0)
          /\ \A n \in Enumerated(1) : TimesMoved(1, n) = 1

(***************************************************************************)
(* C4: once the call has returned, the number of entries of created_dirs   *)
(* for a prefix group of N files is ceil(N / batch_size).                  *)
(***************************************************************************)
C4_DirectoriesPerGroup ==
  Done => \A g \in DOMAIN files_by_prefix[1] :
            LET group == files_by_prefix[1][g] IN
            Len(DirsFor(1, group.prefix)) = Ceil(Len(group.files), batch_size)

C4_Witness ==
  /\ Done
  /\ \E g \in DOMAIN files_by_prefix[1] :
       LET group == files_by_prefix[1][g] IN
       /\ Len(group.files) > batch_size
       /\ Len(group.files) % batch_size # 0
       /\ Len(DirsFor(1, group.prefix)) >= 2
  /\ \E g \in DOMAIN files_by_prefix[1] :
       Len(files_by_prefix[1][g].files) <= batch_size

Other(p) == CHOOSE q \in Procs : q # p

MovedNames(p) == { m.name : m \in Range(moved[p]) }

\* the file instance p was about to move when it stopped in the file loop
FileAtHand(p) == chunks[p][ci[p]].chunk[fi[p]]

Overfull(d) == Cardinality(FilesIn(d)) > batch_size

\* the subdirectories one uninterrupted call creates for the initial files
FullRunDirs ==
  LET fbp == GroupByPrefix(CHOOSE o \in Orders(TopTxt(tree0)) : TRUE) IN
  UNION { { GroupPlan(fbp[g], batch_size)[i].subdir :
              i \in DOMAIN GroupPlan(fbp[g], batch_size) } : g \in DOMAIN fbp }

\* C5's statement for instance p and the files it enumerated
NamesAndSizes(p) ==
  \A g \in DOMAIN files_by_prefix[p] :
    LET group == files_by_prefix[p][g]
        n == Len(group.files)
        k == Ceil(n, batch_size)
        ds == DirsFor(p, group.prefix)
    IN IF n <= batch_size
       THEN /\ ds = << group.prefix >>
            /\ Received(p, group.prefix) = n
       ELSE /\ ds = [i \in 1..k |-> PartDir(group.prefix, i)]
            /\ \A i \in 1..(k - 1) :
                 Received(p, PartDir(group.prefix, i)) = batch_size
            /\ Received(p, PartDir(group.prefix, k)) = n - (k - 1) * batch_size

(***************************************************************************)
(* C9: two instances on one input directory are unsafe.  The guarantees of *)
(* a single run break, and only through the other instance: an instance    *)
(* dies in shutil.move exactly on a file the other instance has moved      *)
(* away, and a subdirectory of a fresh input directory holds more than     *)
(* batch_size files only when both instances have moved files into it.     *)
(* C9_Witness is the interleaving the claim speaks of.                     *)
(***************************************************************************)
C9_BrokenOnlyByTheOtherInstance ==
  /\ \A p \in Procs :
       pc[p] = "raised" =>
         /\ ~IsFileAt(tree, Root, FileAtHand(p))
         /\ FileAtHand(p) \in MovedNames(Other(p))
         /\ FileAtHand(p) \notin MovedNames(p)
  /\ \A d \in dirs :
       Overfull(d) => \A p \in Procs : 1 <= Received(p, d) /\ Received(p, d) <= batch_size

\* instance q scanned after instance p had moved a file; a subdirectory
\* holds more than batch_size files and p died on a file q had moved
C9_Witness ==
  \E p \in Procs :
    LET q == Other(p) IN
    /\ pc[q] \notin {"idle", "glob"}
    /\ Enumerated(q) # TopTxt(tree0)
    /\ Enumerated(q) \cap MovedNames(p) = {}
    /\ \E d \in dirs : Overfull(d)
    /\ pc[p] = "raised"

(***************************************************************************)
(* C10: a second run after an interrupted one is not a repair.  It         *)
(* enumerates exactly the *.txt files the first run left at the top level, *)
(* groups and chunks those alone (part numbers from 1, or the bare prefix  *)
(* when at most batch_size are left), never fails on and never touches     *)
(* what the first run had already moved; only after a first run that       *)
(* returned does it find nothing to do.  C10_Witness is a final layout     *)
(* that differs from the one of an uninterrupted run.                      *)
(***************************************************************************)
C10_RerunSeesOnlyTheRemainder ==
  /\ pc[2] \notin {"idle", "glob"} =>
       /\ Enumerated(2) = TopTxt(tree0) \ MovedNames(1)
       /\ pc[2] # "raised"
  /\ pc[2] = "done" => NamesAndSizes(2)
  /\ \A i \in DOMAIN moved[1] :
       [dir |-> moved[1][i].subdir, name |-> moved[1][i].name, orig |-> Root]
         \in tree
  /\ (pc[1] = "done" /\ pc[2] = "done") =>
       /\ moved[2] = <<>>
       /\ dirs = FullRunDirs

\* the first run was killed after moving a file, the second run returned,
\* and the subdirectories are not those of one uninterrupted run
C10_Witness ==
  /\ pc[1] = "killed"
  /\ pc[2] = "done"
  /\ moved[1] # <<>>
  /\ moved[2] # <<>>
  /\ dirs # FullRunDirs
  /\ \E d \in dirs : Overfull(d)


(***************************************************************************)
(* Vocabulary of the claims about the orchestration scripts.               *)
(***************************************************************************)
Commands(cmd) == { i \in DOMAIN invoked : invoked[i].cmd = cmd }

Failed(i) == invoked[i].status # 0

OnConsole(stream, cmd) ==
  \E k \in DOMAIN console : console[k].stream = stream /\ console[k].of = cmd

Ended == ppc \in {"finished", "crashed"}

(***************************************************************************)
(* C6, as stated: whenever an invocation of the tool (init, prompt-tune,   *)
(* index or query) exits non-zero, its standard error is surfaced, the     *)
(* script terminates on it and no later step is run.                       *)
(***************************************************************************)
C6_EveryFailureTerminates ==
  \A i \in DOMAIN invoked :
    Failed(i) => /\ OnConsole("stderr", invoked[i].cmd)
                 /\ ppc = "crashed"
                 /\ i = Len(invoked)

(***************************************************************************)
(* C6, amended: a non-zero exit of init, index or query terminates the     *)
(* script at that step and nothing runs after it; of these only query is   *)
(* captured, and its stdout and stderr are printed before the re-raise     *)
(* (init and index write to the terminal themselves).  A non-zero exit of  *)
(* prompt-tune is caught: the captured stderr is printed, tuning_success   *)
(* is False, and the script goes on to index.                              *)
(***************************************************************************)
C6_FailureTerminatesExceptPromptTune ==
  \A i \in DOMAIN invoked :
    Failed(i) =>
      IF invoked[i].cmd = "prompt-tune"
      THEN /\ Echoed("stderr", "prompt-tune") \in Range(console)
           /\ ~tuning_success
           /\ i = Len(invoked) => ppc = "index"
           /\ i < Len(invoked) => invoked[i + 1].cmd = "index"
      ELSE /\ i = Len(invoked)
           /\ ppc = "crashed"
           /\ invoked[i].cmd = "query" =>
                /\ Echoed("stdout", "query") \in Range(console)
                /\ Echoed("stderr", "query") \in Range(console)
           /\ invoked[i].cmd \in {"init", "index"} =>
                /\ Echoed("stderr", invoked[i].cmd) \notin Range(console)
                /\ OnConsole("stderr", invoked[i].cmd)

\* prompt-tune failed, index ran all the same, and the script died on query
C6_Witness ==
  /\ ppc = "crashed"
  /\ \E i \in Commands("prompt-tune") : Failed(i) /\ i < Len(invoked)
  /\ \E i \in Commands("index") : ~Failed(i)
  /\ \E i \in Commands("query") : Failed(i)

(***************************************************************************)
(* C7, as stated: in test-integration.py index is invoked if and only if   *)
(* fewer than 2 of the 3 key output files exist when the check is made,    *)
(* and in both cases the query command is run afterwards.                  *)
(***************************************************************************)
C7_IndexIffFewerThanTwoThenQuery ==
  script = "test-integration" =>
    /\ ppc \in {"query", "finished", "crashed"} =>
         (Commands("index") # {} <=> Cardinality(ws0.key_files) < 2)
    /\ Ended => Commands("query") # {}

(***************************************************************************)
(* C7, amended: in test-integration.py index is invoked if and only if     *)
(* fewer than 2 of the 3 key output files exist when the check is made;    *)
(* query is run afterwards when indexing was skipped or index exited with  *)
(* status zero, and is not run when index exited non-zero (the script      *)
(* terminates there).                                                      *)
(***************************************************************************)
C7_IndexIffFewerThanTwo ==
  script = "test-integration" =>
    /\ ppc \in {"query", "finished", "crashed"} =>
         /\ Commands("index") # {} <=> Cardinality(ws0.key_files) < 2
         /\ indexing_complete <=> Cardinality(ws0.key_files) >= 2
    /\ Ended =>
         (Commands("query") # {} <=> \A i \in Commands("index") : ~Failed(i))
    /\ \A i \in Commands("query") : i = Len(invoked)
    /\ \A i \in Commands("index") : i = 1
    /\ Len(invoked) <= 2

\* exactly two key files were there: indexing was skipped and query ran
C7_Witness ==
  /\ script = "test-integration"
  /\ ppc = "finished"
  /\ Cardinality(ws0.key_files) = 2
  /\ Commands("index") = {}
  /\ Commands("query") # {}

(***************************************************************************)
(* C8: prompt tuning is guarded by a resume check: prompt-tune is invoked  *)
(* only when the prompts directory is missing or empty, never when it      *)
(* exists and is non-empty.                                                *)
(***************************************************************************)
C8_PromptTuneOnlyWithoutPrompts ==
  \A i \in Commands("prompt-tune") :
    invoked[i].found.prompts \in {"missing", "empty"}


(***************************************************************************)
(* C11: in every execution of data_ingestion.py the tool commands are      *)
(* invoked in the order init, prompt-tune, index, query, each at most      *)
(* once; init is invoked exactly when .env or settings.yaml is missing;    *)
(* prompt-tune is invoked only after init has exited with status zero or   *)
(* both files were found; index only directly after prompt-tune has        *)
(* returned (with any status); query only directly after index has exited  *)
(* with status zero.                                                       *)
(***************************************************************************)
Rank(cmd) ==
  CASE cmd = "init" -> 1
    [] cmd = "prompt-tune" -> 2
    [] cmd = "index" -> 3
    [] cmd = "query" -> 4

WorkspacePresent0 == ws0.env /\ ws0.settings

C11_FixedCommandOrder ==
  script = "data_ingestion" =>
    /\ \A i, j \in DOMAIN invoked :
         i < j => Rank(invoked[i].cmd) < Rank(invoked[j].cmd)
    /\ ppc # "init" => (Commands("init") # {} <=> ~WorkspacePresent0)
    /\ \A i \in Commands("prompt-tune") :
         \/ i = 1 /\ WorkspacePresent0
         \/ i = 2 /\ invoked[1].cmd = "init" /\ ~Failed(1)
    /\ \A i \in Commands("index") :
         i > 1 /\ invoked[i - 1].cmd = "prompt-tune"
    /\ \A i \in Commands("query") :
         i > 1 /\ invoked[i - 1].cmd = "index" /\ ~Failed(i - 1)

\* a full run: init because settings.yaml was missing, prompt-tune (which
\* failed), index, query
C11_Witness ==
  /\ script = "data_ingestion"
  /\ ppc = "finished"
  /\ ws0.env /\ ~ws0.settings
  /\ Len(invoked) = 4
  /\ [i \in 1..4 |-> invoked[i].cmd] = <<"init", "prompt-tune", "index", "query">>
  /\ Failed(2)

=============================================================================
